---- MODULE Spec2Model ----
(***************************************************************************)
(* Model of src/model/physics_constraints.py: the momentum functions       *)
(* compute_linear_momentum, compute_linear_momentum_batched and            *)
(* momentum_conservation_loss, and the stateful wrapper                    *)
(* PhysicsInformedLoss.                                                    *)
(*                                                                         *)
(* Numbers are exact rationals [n |-> numerator, d |-> denominator > 0]    *)
(* in lowest terms: the arithmetic of the code without floating-point      *)
(* rounding.  Velocities and masses are drawn from integers, so every      *)
(* momentum is an integer vector.  Tensors carry their number of axes in   *)
(* the field dim, as vel.dim() reads it.  A failing call yields            *)
(* ShapeMismatch instead of a value, as the exception of torch's view or   *)
(* broadcast does.                                                         *)
(***************************************************************************)
EXTENDS Integers, Sequences, FiniteSets, TLC

\* the four fields of a PhysicsInformedLoss; call, the most recent call: its
\* name, its arguments and what it returned; history, the constructor's
\* arguments and the argument of the most recent set_epoch (0 before the first)
\* batch, the arrays and sizes the caller holds and passes to the functions
VARIABLES lambda_momentum, warmup_epochs, max_physics_loss, current_epoch,
          call, history, batch

vars == <<lambda_momentum, warmup_epochs, max_physics_loss, current_epoch,
          call, history, batch>>

\* ------------------------------------------------------------------ bounds
MaxBatch == 2
MaxNodes == 2
MaxLen == 4
MaxEpoch == 3
WrapLen == 2

\* ------------------------------------------------------- program constants
\* 1e-6 = 1 / NormFloorDen, the floor of the normaliser (clamp(min=1e-6))
NormFloorDen == 1000000
\* 1e-6 = 1 / LambdaFloorDen, the floor of the weight in the clamp ceiling
LambdaFloorDen == 1000000

\* --------------------------------------------------------------- rationals
Abs(x) == IF x < 0 THEN -x ELSE x

RECURSIVE GCD(_, _)
GCD(a, b) == IF b = 0 THEN a ELSE GCD(b, a % b)

Rat(n, d) ==
    LET s == IF d < 0 THEN -1 ELSE 1
        g == GCD(Abs(n), Abs(d))
    IN  [n |-> (s * n) \div g, d |-> (s * d) \div g]

Whole(k) == [n |-> k, d |-> 1]

Zero == Whole(0)
One == Whole(1)

RAdd(x, y) ==
    LET g == GCD(x.d, y.d)
    IN  Rat(x.n * (y.d \div g) + y.n * (x.d \div g), x.d * (y.d \div g))

\* cross-cancelled before multiplying, so that the products stay small
RMul(x, y) ==
    LET g1 == GCD(Abs(x.n), y.d)
        g2 == GCD(Abs(y.n), x.d)
        h1 == IF g1 = 0 THEN 1 ELSE g1
        h2 == IF g2 = 0 THEN 1 ELSE g2
    IN  Rat((x.n \div h1) * (y.n \div h2), (x.d \div h2) * (y.d \div h1))

\* y is not zero
RDiv(x, y) == RMul(x, [n |-> IF y.n < 0 THEN -y.d ELSE y.d, d |-> Abs(y.n)])

\* x <= y, by integer parts and then by the reciprocals of the fractional
\* parts: no product of a numerator with a denominator is formed
RECURSIVE RLeq(_, _)
RLeq(x, y) ==
    LET qx == x.n \div x.d
        qy == y.n \div y.d
        rx == x.n % x.d
        ry == y.n % y.d
    IN  IF qx # qy THEN qx < qy
        ELSE IF rx = 0 THEN TRUE
        ELSE IF ry = 0 THEN FALSE
        ELSE RLeq([n |-> y.d, d |-> ry], [n |-> x.d, d |-> rx])

RLt(x, y) == RLeq(x, y) /\ x # y
RMin(x, y) == IF RLeq(x, y) THEN x ELSE y
RMax(x, y) == IF RLeq(x, y) THEN y ELSE x

\* ----------------------------------------------------------------- tensors
None == [dim |-> 0]
ShapeMismatch == [tag |-> "ShapeMismatch"]
Ok(v) == [tag |-> "ok", val |-> v]

\* a flat velocity array [N, 3], a grouped one [batch, n_nodes, 3], and a
\* mass array [rows, cols]
Flat(rows) == [dim |-> 2, data |-> rows]
Grouped(samples) == [dim |-> 3, data |-> samples]
Masses(m) == [dim |-> 2, data |-> m]

Scale(k, v) == <<k * v[1], k * v[2], k * v[3]>>
VAdd(u, v) == <<u[1] + v[1], u[2] + v[2], u[3] + v[3]>>
VSub(u, v) == <<u[1] - v[1], u[2] - v[2], u[3] - v[3]>>
SumSq(v) == v[1] * v[1] + v[2] * v[2] + v[3] * v[3]

RECURSIVE SumVec(_)
SumVec(s) == IF s = <<>> THEN <<0, 0, 0>> ELSE VAdd(Head(s), SumVec(Tail(s)))

RECURSIVE SumRat(_)
SumRat(s) == IF s = <<>> THEN Zero ELSE RAdd(Head(s), SumRat(Tail(s)))

\* torch's broadcasting of two sizes of one axis
Compatible(a, b) == a = b \/ a = 1 \/ b = 1
BSize(a, b) == IF a = 1 THEN b ELSE a
BIndex(size, i) == IF size = 1 THEN 1 ELSE i

\* vel * masses.unsqueeze(-1) for vel [b, n, 3] and masses [r, c]: the mass
\* is broadcast over the 3 components, and the axes of size 1 over the other
Weighted3(vel, masses) ==
    LET b == Len(vel.data)
        n == Len(vel.data[1])
        r == Len(masses.data)
        c == Len(masses.data[1])
    IN  IF ~(Compatible(b, r) /\ Compatible(n, c)) THEN ShapeMismatch
        ELSE Ok(Grouped([i \in 1..BSize(b, r) |->
                 [j \in 1..BSize(n, c) |->
                     Scale(masses.data[BIndex(r, i)][BIndex(c, j)],
                           vel.data[BIndex(b, i)][BIndex(n, j)])]]))

\* vel * masses.unsqueeze(-1) for vel [N, 3] and masses [r, c]: the product
\* is [r, max(c, N), 3]
Weighted2(vel, masses) ==
    LET n == Len(vel.data)
        r == Len(masses.data)
        c == Len(masses.data[1])
    IN  IF ~Compatible(n, c) THEN ShapeMismatch
        ELSE Ok(Grouped([i \in 1..r |->
                 [j \in 1..BSize(n, c) |->
                     Scale(masses.data[i][BIndex(c, j)],
                           vel.data[BIndex(n, j)])]]))

\* t.sum(dim=1) of a [b, n, 3] tensor: [b, 3]
SumDim1(t) == Flat([i \in 1..Len(t.data) |-> SumVec(t.data[i])])

\* t.sum(dim=0) of a [N, 3] tensor: [3]
SumDim0Flat(t) == [dim |-> 1, data |-> SumVec(t.data)]

\* t.sum(dim=0) of a [r, m, 3] tensor: [m, 3]
SumDim0Grouped(t) ==
    Flat([j \in 1..Len(t.data[1]) |->
            SumVec([i \in 1..Len(t.data) |-> t.data[i][j]])])

\* ------------------------------------------------------ momentum functions
compute_linear_momentum(vel, masses) ==
    IF vel.dim = 3
    THEN IF masses # None
         THEN LET w == Weighted3(vel, masses)
              IN  IF w.tag = "ok" THEN Ok(SumDim1(w.val)) ELSE w
         ELSE Ok(SumDim1(vel))
    ELSE IF masses # None
         THEN LET w == Weighted2(vel, masses)
              IN  IF w.tag = "ok" THEN Ok(SumDim0Grouped(w.val)) ELSE w
         ELSE Ok(SumDim0Flat(vel))

\* View with the rows taken with stride batch_size: sample i gets the
\* particles i, i + batch_size, ...
View_strided(vel, batch_size, n_nodes) ==
    IF Len(vel.data) # batch_size * n_nodes THEN ShapeMismatch
    ELSE Ok(Grouped([i \in 1..batch_size |->
             [j \in 1..n_nodes |-> vel.data[(j - 1) * batch_size + i]]]))

\* View as vel.view(-1, n_nodes, 3): the number of samples is inferred
View_inferred(vel, batch_size, n_nodes) ==
    IF Len(vel.data) % n_nodes # 0 THEN ShapeMismatch
    ELSE Ok(Grouped([i \in 1..(Len(vel.data) \div n_nodes) |->
             [j \in 1..n_nodes |-> vel.data[(i - 1) * n_nodes + j]]]))

\* vel.view(batch_size, n_nodes, 3) of a flat [N, 3] array, sizes positive
View(vel, batch_size, n_nodes) ==
    IF Len(vel.data) # batch_size * n_nodes THEN ShapeMismatch
    ELSE Ok(Grouped([i \in 1..batch_size |->
             [j \in 1..n_nodes |-> vel.data[(i - 1) * n_nodes + j]]]))

compute_linear_momentum_batched(vel, n_nodes, batch_size, masses) ==
    LET vel_batched == View(vel, batch_size, n_nodes)
    IN  IF vel_batched.tag = "ok"
        THEN compute_linear_momentum(vel_batched.val, masses)
        ELSE vel_batched

\* lines 80-86, from the two momenta [rows, 3]
NormalizedMeanLoss(P_init, P_pred) ==
    LET rows == Len(P_init.data)
        loss == [i \in 1..rows |->
                   Whole(SumSq(VSub(P_pred.data[i], P_init.data[i])))]
        P_init_norm == [i \in 1..rows |->
                   RMax(Whole(SumSq(P_init.data[i])), Rat(1, NormFloorDen))]
        normalized == [i \in 1..rows |-> RDiv(loss[i], P_init_norm[i])]
    IN  RDiv(SumRat(normalized), Whole(rows))

\* momentum_conservation_loss with the masses left out of P_pred
momentum_conservation_loss_unweighted_pred(vel_init, vel_pred, n_nodes, batch_size, masses) ==
    LET P_init == compute_linear_momentum_batched(vel_init, n_nodes, batch_size, masses)
        P_pred == compute_linear_momentum_batched(vel_pred, n_nodes, batch_size, None)
    IN  IF P_init.tag # "ok" THEN P_init
        ELSE IF P_pred.tag # "ok" THEN P_pred
        ELSE Ok(NormalizedMeanLoss(P_init.val, P_pred.val))

momentum_conservation_loss(vel_init, vel_pred, n_nodes, batch_size, masses) ==
    LET P_init == compute_linear_momentum_batched(vel_init, n_nodes, batch_size, masses)
        P_pred == compute_linear_momentum_batched(vel_pred, n_nodes, batch_size, masses)
    IN  IF P_init.tag # "ok" THEN P_init
        ELSE IF P_pred.tag # "ok" THEN P_pred
        ELSE Ok(NormalizedMeanLoss(P_init.val, P_pred.val))

\* ------------------------------------------------------------- inputs
VelSet == {<<1, 0, -1>>, <<-1, 0, 1>>}

FlatArrays(maxlen) ==
    {Flat(s) : s \in UNION {[1..L -> VelSet] : L \in 1..maxlen}}

\* a mass per particle, [rows, cols]: 1 and 2 alternating
MassPattern(rows, cols) ==
    Masses([i \in 1..rows |-> [j \in 1..cols |-> 1 + ((i + j) % 2)]])

MassArrays ==
    {None} \cup {MassPattern(r, c) : r \in 1..MaxBatch, c \in 1..MaxNodes}

Batches(maxlen) ==
    {[vel_init |-> vi, vel_pred |-> vp, n_nodes |-> n, batch_size |-> b,
      masses |-> m] :
        vi \in FlatArrays(maxlen), vp \in FlatArrays(maxlen),
        n \in 1..MaxNodes, b \in 1..MaxBatch, m \in MassArrays}

\* what the training loop passes to the wrapper: no masses, or one per particle
WrapBatches ==
    {a \in Batches(WrapLen) :
        a.masses \in {None, MassPattern(a.batch_size, a.n_nodes)}}

\* what the momentum functions are applied to
PureBatches == Batches(MaxLen)

\* the constructor's arguments the model draws from
LambdaSet == {Whole(-1), Zero, Rat(1, 2000000), Rat(1, 10)}
WarmupSet == {-1, 0, 2}
MaxLossSet == {Rat(1, 2), Whole(10)}
EpochSet == -1..MaxEpoch

\* ------------------------------------------------- PhysicsInformedLoss
Fields(l, w, m) ==
    [lambda_momentum |-> l, warmup_epochs |-> w, max_physics_loss |-> m]

NoCall == [op |-> "__init__", args |-> None, out |-> None]

\* __init__
Init ==
    /\ lambda_momentum \in LambdaSet
    /\ warmup_epochs \in WarmupSet
    /\ max_physics_loss \in MaxLossSet
    /\ current_epoch = 0
    /\ call = NoCall
    /\ history = [ctor |-> Fields(lambda_momentum, warmup_epochs, max_physics_loss),
                  epoch |-> 0]
    /\ batch \in WrapBatches

\* the ramp without its cap of 1.0
WarmupFactor_uncapped(w, epoch) ==
    IF w <= 0 THEN One ELSE Rat(epoch, w)

\* the body of get_warmup_factor, of warmup_epochs and current_epoch
WarmupFactor(w, epoch) ==
    IF w <= 0 THEN One ELSE RMin(One, Rat(epoch, w))

get_warmup_factor == WarmupFactor(warmup_epochs, current_epoch)

\* the guard with >= for >
MomentumActive_ge == RLeq(Zero, lambda_momentum)

\* self.lambda_momentum > 0
MomentumActive == RLt(Zero, lambda_momentum)

\* the ceiling with min for max in the divisor
ClampCeiling_min ==
    RDiv(max_physics_loss, RMin(lambda_momentum, Rat(1, LambdaFloorDen)))

\* self.max_physics_loss / max(self.lambda_momentum, 1e-6)
ClampCeiling ==
    RDiv(max_physics_loss, RMax(lambda_momentum, Rat(1, LambdaFloorDen)))

\* torch.clamp(x, min=ceiling)
ClampMax_asmin(x, ceiling) == RMax(x, ceiling)

\* torch.clamp(x, max=ceiling)
ClampMax(x, ceiling) == RMin(x, ceiling)

\* the total without the warmup factor
TotalPhysicsLoss_nowarmup(momentum_loss_clamped, warmup_factor) ==
    RAdd(Zero, RMul(lambda_momentum, momentum_loss_clamped))

\* total_physics_loss + self.lambda_momentum * momentum_loss_clamped * warmup_factor
TotalPhysicsLoss(momentum_loss_clamped, warmup_factor) ==
    RAdd(Zero, RMul(RMul(lambda_momentum, momentum_loss_clamped), warmup_factor))

\* the value compute_physics_losses returns: (total_physics_loss, losses),
\* or the error of momentum_conservation_loss
PhysicsLosses(vel_init, vel_pred, n_nodes, batch_size, masses) ==
    LET warmup_factor == get_warmup_factor
        totals(t) == ("total_physics" :> t) @@ ("warmup_factor" :> warmup_factor)
    IN  IF MomentumActive
        THEN LET momentum_loss ==
                     momentum_conservation_loss(vel_init, vel_pred, n_nodes,
                                                batch_size, masses)
             IN  IF momentum_loss.tag # "ok" THEN momentum_loss
                 ELSE LET momentum_loss_clamped ==
                              ClampMax(momentum_loss.val, ClampCeiling)
                          total == TotalPhysicsLoss(momentum_loss_clamped,
                                                    warmup_factor)
                      IN  Ok([total |-> total,
                              losses |-> ("momentum" :> momentum_loss.val)
                                        @@ ("momentum_clamped" :> momentum_loss_clamped)
                                        @@ totals(total)])
        ELSE Ok([total |-> Zero, losses |-> totals(Zero)])

\* ----------------------------------------------------------------- actions
\* set_epoch adding to the epoch instead of overwriting it
set_epoch_advancing(epoch) ==
    /\ current_epoch' = current_epoch + 1
    /\ call' = [op |-> "set_epoch", args |-> [epoch |-> epoch], out |-> None]
    /\ history' = [history EXCEPT !.epoch = epoch]
    /\ UNCHANGED <<lambda_momentum, warmup_epochs, max_physics_loss, batch>>

set_epoch(epoch) ==
    /\ current_epoch' = epoch
    /\ call' = [op |-> "set_epoch", args |-> [epoch |-> epoch], out |-> None]
    /\ history' = [history EXCEPT !.epoch = epoch]
    /\ UNCHANGED <<lambda_momentum, warmup_epochs, max_physics_loss, batch>>

GetWarmupFactor ==
    /\ call' = [op |-> "get_warmup_factor", args |-> None,
                out |-> Ok(get_warmup_factor)]
    /\ UNCHANGED <<lambda_momentum, warmup_epochs, max_physics_loss,
                   current_epoch, history, batch>>

compute_physics_losses ==
    /\ call' = [op |-> "compute_physics_losses", args |-> None,
                out |-> PhysicsLosses(batch.vel_init, batch.vel_pred,
                                      batch.n_nodes, batch.batch_size,
                                      batch.masses)]
    /\ UNCHANGED <<lambda_momentum, warmup_epochs, max_physics_loss,
                   current_epoch, history, batch>>

Next ==
    \/ \E epoch \in EpochSet : set_epoch(epoch)
    \/ GetWarmupFactor
    \/ compute_physics_losses

Spec == Init /\ [][Next]_vars

\* ------------------------------------- the momentum functions on their own
\* a wrapper built with the default arguments, and the arrays the functions
\* are applied to
InitPure ==
    /\ lambda_momentum = Rat(1, 10)
    /\ warmup_epochs = 0
    /\ max_physics_loss = Whole(10)
    /\ current_epoch = 0
    /\ call = NoCall
    /\ history = [ctor |-> Fields(lambda_momentum, warmup_epochs, max_physics_loss),
                  epoch |-> 0]
    /\ batch \in PureBatches

\* compute_linear_momentum on the flat array (the 2-axis branch)
ComputeLinearMomentumFlat ==
    /\ call' = [op |-> "compute_linear_momentum", args |-> None,
                out |-> compute_linear_momentum(batch.vel_init, batch.masses)]
    /\ UNCHANGED <<lambda_momentum, warmup_epochs, max_physics_loss,
                   current_epoch, history, batch>>

ComputeLinearMomentumBatched ==
    /\ call' = [op |-> "compute_linear_momentum_batched", args |-> None,
                out |-> compute_linear_momentum_batched(batch.vel_init,
                            batch.n_nodes, batch.batch_size, batch.masses)]
    /\ UNCHANGED <<lambda_momentum, warmup_epochs, max_physics_loss,
                   current_epoch, history, batch>>

MomentumConservationLoss ==
    /\ call' = [op |-> "momentum_conservation_loss", args |-> None,
                out |-> momentum_conservation_loss(batch.vel_init, batch.vel_pred,
                            batch.n_nodes, batch.batch_size, batch.masses)]
    /\ UNCHANGED <<lambda_momentum, warmup_epochs, max_physics_loss,
                   current_epoch, history, batch>>

NextPure ==
    \/ ComputeLinearMomentumFlat
    \/ ComputeLinearMomentumBatched
    \/ MomentumConservationLoss

SpecPure == InitPure /\ [][NextPure]_vars

\* ------------------------------------------------------------------ claims
Computed == call.op = "compute_physics_losses"
Positive(x) == RLt(Zero, x)
Mismatch(vel) == Len(vel.data) # batch.batch_size * batch.n_nodes
RawLoss ==
    momentum_conservation_loss(batch.vel_init, batch.vel_pred, batch.n_nodes,
                               batch.batch_size, batch.masses)
InitialMomentum ==
    compute_linear_momentum_batched(batch.vel_init, batch.n_nodes,
                                    batch.batch_size, batch.masses)
\* no masses, or one mass per particle
MassPerParticle ==
    batch.masses \in {None, MassPattern(batch.batch_size, batch.n_nodes)}

\* C1: whenever compute_physics_losses returns with lambda_momentum > 0 and
\* max_physics_loss > 0, lambda_momentum times the clamped momentum loss it
\* recorded is at most max_physics_loss, however large the raw loss and also
\* for 0 < lambda_momentum < 1e-6.
C1_ClampBound ==
    (Computed /\ Positive(lambda_momentum) /\ Positive(max_physics_loss)
        /\ call.out.tag = "ok")
    => RLeq(RMul(lambda_momentum, call.out.val.losses["momentum_clamped"]),
            max_physics_loss)

\* a call with 0 < lambda_momentum < 1e-6 whose raw loss was over the ceiling
C1_Witness ==
    /\ Computed /\ call.out.tag = "ok"
    /\ Positive(lambda_momentum)
    /\ RLt(lambda_momentum, Rat(1, LambdaFloorDen))
    /\ call.out.val.losses["momentum"] # call.out.val.losses["momentum_clamped"]

\* C2: after any sequence of set_epoch calls, with any integer argument,
\* get_warmup_factor returns a value in [0, 1].
C2_WarmupInUnitInterval ==
    call.op = "get_warmup_factor"
    => RLeq(Zero, call.out.val) /\ RLeq(call.out.val, One)

\* C3: for warmup_epochs > 0 the factor get_warmup_factor returns is 0 at epoch
\* 0, is 1 at every epoch >= warmup_epochs, and is non-decreasing in the epoch:
\* no smaller than the factor of any earlier epoch, no larger than that of any
\* later one; for warmup_epochs <= 0 it is 1 at every epoch.
C3_WarmupMonotoneSaturating ==
    call.op = "get_warmup_factor"
    => /\ warmup_epochs <= 0 => call.out.val = One
       /\ warmup_epochs > 0 =>
            /\ current_epoch = 0 => call.out.val = Zero
            /\ current_epoch >= warmup_epochs => call.out.val = One
            /\ \A e \in EpochSet :
                 /\ e <= current_epoch
                      => RLeq(WarmupFactor(warmup_epochs, e), call.out.val)
                 /\ current_epoch <= e
                      => RLeq(call.out.val, WarmupFactor(warmup_epochs, e))
            /\ \A e1, e2 \in EpochSet :
                 e1 <= e2 => RLeq(WarmupFactor(warmup_epochs, e1),
                                  WarmupFactor(warmup_epochs, e2))

\* the factor read past the end of the ramp
C3_Witness ==
    /\ call.op = "get_warmup_factor"
    /\ warmup_epochs > 0
    /\ current_epoch > warmup_epochs
    /\ call.out.val = One

\* C4: with lambda_momentum <= 0 compute_physics_losses returns, for any
\* arrays and any epoch, the total 0 and a breakdown with the keys
\* total_physics (0) and warmup_factor only; with lambda_momentum > 0 a
\* breakdown it returns has both momentum and momentum_clamped.
C4_DisabledTerm ==
    Computed
    => /\ ~Positive(lambda_momentum) =>
            /\ call.out.tag = "ok"
            /\ call.out.val.total = Zero
            /\ DOMAIN call.out.val.losses = {"total_physics", "warmup_factor"}
            /\ call.out.val.losses["total_physics"] = Zero
            /\ call.out.val.losses["warmup_factor"] = get_warmup_factor
       /\ (Positive(lambda_momentum) /\ call.out.tag = "ok") =>
            {"momentum", "momentum_clamped"} \subseteq DOMAIN call.out.val.losses

\* the disabled term on arrays that would not even reshape, mid-ramp
C4_Witness ==
    /\ Computed
    /\ lambda_momentum = Zero
    /\ Mismatch(batch.vel_init)
    /\ warmup_epochs = 2 /\ current_epoch = 1
    /\ call.out.val.total = Zero

\* C5: momentum_conservation_loss of vel_pred = vel_init returns 0 whenever the
\* arrays have batch_size * n_nodes rows (no masses or one per particle), and
\* never another value, also for samples whose initial momentum is zero.
C5_ConservationZeroLoss ==
    (call.op = "momentum_conservation_loss" /\ batch.vel_pred = batch.vel_init)
    => /\ call.out.tag = "ok" => call.out.val = Zero
       /\ (~Mismatch(batch.vel_init) /\ MassPerParticle) => call.out.tag = "ok"

\* exact conservation of a sample whose initial momentum is zero
C5_Witness ==
    /\ call.op = "momentum_conservation_loss"
    /\ batch.vel_pred = batch.vel_init
    /\ call.out = Ok(Zero)
    /\ InitialMomentum.tag = "ok"
    /\ \E i \in 1..Len(InitialMomentum.val.data) :
          InitialMomentum.val.data[i] = <<0, 0, 0>>

\* the flat array cut into batch_size consecutive runs of n_nodes rows
PreGrouped(vel, n_nodes, batch_size) ==
    Grouped([i \in 1..batch_size |->
                SubSeq(vel.data, (i - 1) * n_nodes + 1, i * n_nodes)])

\* row i: the mass-weighted sum of the particles (i-1)*n_nodes + 1 .. i*n_nodes
SampleMomentum(vel, n_nodes, masses, i) ==
    SumVec([j \in 1..n_nodes |->
              Scale(IF masses = None THEN 1 ELSE masses.data[i][j],
                    vel.data[(i - 1) * n_nodes + j])])

\* C6: on a flat array of batch_size * n_nodes rows,
\* compute_linear_momentum_batched returns what compute_linear_momentum
\* returns on the pre-grouped array, and (no masses or one per particle) row i
\* is the mass-weighted sum of the n_nodes particles of sample i alone.
C6_ReshapeConsistency ==
    (call.op = "compute_linear_momentum_batched" /\ ~Mismatch(batch.vel_init))
    => /\ call.out = compute_linear_momentum(
                         PreGrouped(batch.vel_init, batch.n_nodes, batch.batch_size),
                         batch.masses)
       /\ MassPerParticle =>
            call.out = Ok(Flat([i \in 1..batch.batch_size |->
                            SampleMomentum(batch.vel_init, batch.n_nodes,
                                           batch.masses, i)]))

\* two samples of two weighted particles each, with different momenta
C6_Witness ==
    /\ call.op = "compute_linear_momentum_batched"
    /\ batch.batch_size = 2 /\ batch.n_nodes = 2
    /\ batch.masses = MassPattern(2, 2)
    /\ call.out.tag = "ok"
    /\ call.out.val.data[1] # call.out.val.data[2]

\* C7: with lambda_momentum > 0 the total compute_physics_losses returns is
\* lambda_momentum * min(raw, max_physics_loss / max(lambda_momentum, 1e-6))
\* * get_warmup_factor() at the epoch of the call, and the breakdown holds the
\* raw loss, the clamped loss, that total and the factor.
C7_TotalFormula ==
    (Computed /\ Positive(lambda_momentum) /\ call.out.tag = "ok")
    => LET raw == RawLoss.val
           clamped == RMin(raw, RDiv(max_physics_loss,
                                     RMax(lambda_momentum, Rat(1, LambdaFloorDen))))
           factor == WarmupFactor(warmup_epochs, current_epoch)
           total == RMul(RMul(lambda_momentum, clamped), factor)
       IN  /\ call.out.val.total = total
           /\ call.out.val.losses["momentum"] = raw
           /\ call.out.val.losses["momentum_clamped"] = clamped
           /\ call.out.val.losses["total_physics"] = total
           /\ call.out.val.losses["warmup_factor"] = factor

\* a clamped loss, half-way up the ramp
C7_Witness ==
    /\ Computed /\ Positive(lambda_momentum) /\ call.out.tag = "ok"
    /\ warmup_epochs = 2 /\ current_epoch = 1
    /\ call.out.val.losses["momentum"] # call.out.val.losses["momentum_clamped"]
    /\ call.out.val.total # Zero

FieldsAsBefore ==
    /\ Fields(lambda_momentum, warmup_epochs, max_physics_loss) = history.ctor
    /\ current_epoch = history.epoch

\* C8: on a flat array whose length is not batch_size * n_nodes,
\* compute_linear_momentum_batched and momentum_conservation_loss fail with
\* ShapeMismatch, compute_physics_losses with lambda_momentum > 0 returns that
\* very error, and the wrapper's four fields are as they were.
C8_ShapeMismatchPropagates ==
    /\ Mismatch(batch.vel_init) => InitialMomentum = ShapeMismatch
    /\ (Mismatch(batch.vel_init) \/ Mismatch(batch.vel_pred))
          => RawLoss = ShapeMismatch
    /\ (Computed /\ Positive(lambda_momentum)
          /\ (Mismatch(batch.vel_init) \/ Mismatch(batch.vel_pred)))
          => call.out = ShapeMismatch /\ FieldsAsBefore

\* a failed call, after the epoch was set, on a vel_pred of the wrong length
C8_Witness ==
    /\ Computed /\ Positive(lambda_momentum)
    /\ ~Mismatch(batch.vel_init) /\ Mismatch(batch.vel_pred)
    /\ current_epoch = 2
    /\ call.out = ShapeMismatch

\* C9: current_epoch is 0 after construction and is the argument of the most
\* recent set_epoch after any calls (0 if there was none); lambda_momentum,
\* warmup_epochs and max_physics_loss are the constructor's arguments after any
\* calls.
C9_Frame ==
    /\ Fields(lambda_momentum, warmup_epochs, max_physics_loss) = history.ctor
    /\ current_epoch = history.epoch
    /\ call.op = "__init__" => current_epoch = 0
    /\ call.op = "set_epoch" => current_epoch = call.args.epoch

\* compute_physics_losses called after set_epoch(2)
C9_Witness ==
    /\ Computed
    /\ history.epoch = 2
    /\ current_epoch = 2
    /\ lambda_momentum = Rat(1, 10)

\* C10: with lambda_momentum >= 0, max_physics_loss > 0 and current_epoch >= 0,
\* a total compute_physics_losses returns is within [0, max_physics_loss], and
\* is 0 at epoch 0 of a ramp (warmup_epochs > 0).
C10_BoundedTotal ==
    (Computed /\ RLeq(Zero, lambda_momentum) /\ Positive(max_physics_loss)
        /\ current_epoch >= 0 /\ call.out.tag = "ok")
    => /\ RLeq(Zero, call.out.val.total)
       /\ RLeq(call.out.val.total, max_physics_loss)
       /\ (warmup_epochs > 0 /\ current_epoch = 0) => call.out.val.total = Zero

\* total 0 at epoch 0 of a ramp although the weighted raw loss is not 0
C10_Witness ==
    /\ Computed /\ Positive(lambda_momentum) /\ call.out.tag = "ok"
    /\ warmup_epochs > 0 /\ current_epoch = 0
    /\ call.out.val.losses["momentum"] # Zero
    /\ call.out.val.total = Zero

====
